---- MODULE Spec2Model ----
(***************************************************************************)
(* A model of the shttp Router (router.go), the response-state tracker     *)
(* (responseWriter in middleware.go), the middleware it ships              *)
(* (middleware.go), the structured HTTPError (error.go) and the            *)
(* request-scoped path parameter store (pathparams.go).                    *)
(*                                                                         *)
(* One request is served at a time; registration (Use, Handle, GET, POST,  *)
(* ANY) happens between requests.  A request is served in steps: the mux   *)
(* resolves a pattern (ServeHTTP), the registered closure checks the       *)
(* method and composes the chain (HandleServe / ANYServe), every           *)
(* middleware layer is entered (MiddlewareCall), the terminal handler runs *)
(* (HandlerCall), every layer is left again (MiddlewareReturn) and the     *)
(* closure translates the returned error (HandleReturn / ANYReturn).       *)
(*                                                                         *)
(* Further specifications run one part on its own: SpecRW a                *)
(* responseWriter, SpecPP extractPathParams over pattern and path strings, *)
(* SpecStore the calls of SetPathValue, SetPathValues and PathValue on     *)
(* requests that refer to maps on a heap, SpecDefault a Router that was    *)
(* given DefaultMiddlewareStack and whose middleware may panic, SpecCORS a *)
(* Router with CORSMiddleware and requests that carry an Origin,           *)
(* SpecTimeout a Router with TimeoutMiddleware and a deadline that may     *)
(* pass, SpecAfter a Router whose middleware set a header after next,      *)
(* SpecLate a Router whose routes remember the middleware list they were   *)
(* registered under, SpecConflict a Router asked to register a pattern     *)
(* twice, and SpecConc two requests served at the same time.               *)
(***************************************************************************)
EXTENDS Integers, Sequences, FiniteSets, TLC

\* ------------------------------------------------------------------ bounds
\* longest middleware list a Router is given
MaxMiddleware == 2
\* most WriteHeader/Write calls one terminal handler makes
MaxOps == 2

\* ------------------------------------------------------- program constants
StatusOK == 200
StatusNotFound == 404
StatusMethodNotAllowed == 405
StatusInternalServerError == 500

\* ------------------------------------------------------------ input domains
\* methods a request may carry
RequestMethods == {"GET", "POST", "OPTIONS"}
\* methods a route is registered for
RouteMethods == {"GET", "POST"}

Lit(s) == [wild |-> FALSE, s |-> s]
Wild(n) == [wild |-> TRUE, s |-> n]

\* the patterns routes are registered under: /test and /hello/{name}
Patterns == { <<Lit("test")>>, <<Lit("hello"), Wild("name")>> }
NoPattern == <<>>

\* the request paths, as their segments: /test, /hello/alice, /hello/bob, /nope
Paths == { <<"test">>, <<"hello", "alice">>, <<"hello", "bob">>, <<"nope">> }

\* the middleware a Router may be given
\*   first, second : set X-Order before calling next (server_test.go)
\*   reject        : returns an error without calling next (server_test.go)
\*   writer        : writes a header before next and body bytes after it
\*   recovery      : RecoveryMiddleware
MiddlewareKinds == {"first", "second", "reject", "writer", "recovery"}

\* the terminal handlers a route may be given
\*   script : any sequence of writer calls followed by any outcome
\*   echo   : writes PathValue(r, "name") (integration_test.go)
\* the echo handler is registered under the pattern with the {name} segment,
\* the scripted handler under the literal pattern
HandlersFor(P) == IF \E i \in 1..Len(P) : P[i].wild THEN {"echo"} ELSE {"script"}

HeaderNames ==
    { "X-Order", "X-Request-ID",
      "Access-Control-Allow-Origin", "Access-Control-Allow-Methods",
      "Access-Control-Allow-Headers", "Access-Control-Max-Age" }

\* ------------------------------------------------------------------ errors
NoErr == [kind |-> "nil", text |-> "", code |-> 0]
OpaqueErr(t) == [kind |-> "error", text |-> t, code |-> 0]

\* HTTPError{Message, StatusCode}
NewHTTPError(statusCode, message) ==
    [kind |-> "HTTPError", text |-> message, code |-> statusCode]

\* HTTPError.Error and error.Error of errors.New / fmt.Errorf values
ErrorText(e) == e.text

\* ------------------------------------------------- terminal handler scripts
WH(c) == [op |-> "WriteHeader", code |-> c, b |-> ""]
WR(b) == [op |-> "Write", code |-> 0, b |-> b]

HandlerOps == { WH(201), WH(404), WR("hi") }

SeqsUpTo(S, n) == UNION { [1..k -> S] : k \in 0..n }

Outcomes ==
    { [ret |-> NoErr, panic |-> ""],
      [ret |-> OpaqueErr("handler error"), panic |-> ""],
      [ret |-> NewHTTPError(400, "invalid input"), panic |-> ""],
      [ret |-> NoErr, panic |-> "boom"] }

Scripts == { [ops |-> o, out |-> r] : o \in SeqsUpTo(HandlerOps, MaxOps), r \in Outcomes }

\* ------------------------------------------------------------------- state
VARIABLES
    middleware,   \* Router.middleware: the registered middleware, in order
    routes,       \* Router.mux: pattern -> registration (or NoRoute)
    req           \* the request being served and its response

vars == <<middleware, routes, req>>

NoRoute == [registered |-> FALSE, any |-> FALSE, method |-> "", handler |-> ""]

EmptyMap == [k \in {} |-> ""]
NoParams == [attached |-> FALSE, vals |-> EmptyMap]

\* a context.Context: the values it carries and its deadline
\*   deadline "none"    : the context has no deadline
\*            "pending" : context.WithTimeout was applied, the time is not up
\*            "exceeded": the time is up, ctx.Err() is context.DeadlineExceeded
\*            "canceled": cancel() was called first, ctx.Err() is context.Canceled
Background == [vals |-> EmptyMap, deadline |-> "none"]

\* context.WithValue(ctx, key, val)
WithValue(ctx, key, val) ==
    [ctx EXCEPT !.vals = [x \in DOMAIN ctx.vals \cup {key} |->
                            IF x = key THEN val ELSE ctx.vals[x]]]

\* GetRequestID(ctx)
GetRequestID(ctx) ==
    IF "request_id" \in DOMAIN ctx.vals THEN ctx.vals["request_id"] ELSE ""

\* the underlying http.ResponseWriter before anything was written
NewWriter ==
    [ hdr    |-> [h \in HeaderNames |-> ""],   \* the live header map
      hdrSet |-> {},                            \* the headers Set was called for
      sent   |-> [h \in HeaderNames |-> ""],   \* the headers that went out with the status
      codes  |-> <<>>,                          \* every WriteHeader call it received
      status |-> 0,                             \* the status that went out (0: none yet)
      wrote  |-> FALSE,
      body   |-> "" ]

\* &responseWriter{ResponseWriter: w}
NewTracker == [status |-> 0, wroteHeader |-> FALSE]

IdleReq ==
    [ pc        |-> "idle",
      method    |-> "",
      path      |-> <<>>,
      origin    |-> "",          \* the Origin header of the request
      ctx       |-> Background,  \* the context handed to the innermost layer called
      pattern   |-> NoPattern,
      muxVals   |-> EmptyMap,    \* the values the mux bound (http.Request.PathValue)
      ctxParams |-> NoParams,    \* the mapping under pathParamsKey in the context
      chain     |-> <<>>,        \* the composed handler, outermost layer first
      depth     |-> 0,           \* the layer that is running
      w         |-> NewWriter,
      rw        |-> NewTracker,
      err       |-> NoErr,       \* the error being returned outward
      panic     |-> "",          \* the value the handler panicked with
      unwinding |-> FALSE,       \* a panic is propagating outward
      trace     |-> <<>> ]       \* the code that ran, in order

\* ------------------------------------------- the underlying response writer
\* http.ResponseWriter.WriteHeader: the first call sends the status with a
\* snapshot of the headers; the writer ignores the status of a later call
wWriteHeader(w, code) ==
    [w EXCEPT !.codes  = Append(@, code),
              !.status = IF w.wrote THEN @ ELSE code,
              !.sent   = IF w.wrote THEN @ ELSE w.hdr,
              !.wrote  = TRUE]

\* http.ResponseWriter.Write: sends 200 first when no status went out yet
wWrite(w, b) ==
    LET w1 == IF w.wrote THEN w
              ELSE [w EXCEPT !.status = StatusOK, !.sent = w.hdr, !.wrote = TRUE]
    IN  [w1 EXCEPT !.body = @ \o b]

\* w.Header().Set(h, v)
SetHeader(q, h, v) == [q EXCEPT !.w.hdr[h] = v, !.w.hdrSet = @ \cup {h}]

\* the status, header and body a client reads from the finished response
RespStatus(w) == IF w.wrote THEN w.status ELSE StatusOK
RespHeader(w, h) == IF w.wrote THEN w.sent[h] ELSE w.hdr[h]
RespBody(w) == w.body

\* ------------------------------------------------------------ responseWriter
\* variant of WriteHeader without the wroteHeader guard
rwWriteHeader_noguard(q, status) ==
    [q EXCEPT !.rw.status = status,
              !.w = wWriteHeader(q.w, status),
              !.rw.wroteHeader = TRUE]

\* variant of WriteHeader that never sets wroteHeader
rwWriteHeader_noflag(q, status) ==
    IF q.rw.wroteHeader
    THEN q
    ELSE [q EXCEPT !.rw.status = status,
                   !.w = wWriteHeader(q.w, status)]

\* (w *responseWriter) WriteHeader(status)
rwWriteHeader(q, status) ==
    IF q.rw.wroteHeader
    THEN q
    ELSE [q EXCEPT !.rw.status = status,
                   !.w = wWriteHeader(q.w, status),
                   !.rw.wroteHeader = TRUE]

\* variant of Write that leaves the implicit 200 to the underlying writer
rwWrite_noheader(q, b) == [q EXCEPT !.w = wWrite(q.w, b)]

\* (w *responseWriter) Write(b)
rwWrite(q, b) ==
    LET q1 == IF ~q.rw.wroteHeader THEN rwWriteHeader(q, StatusOK) ELSE q
    IN  [q1 EXCEPT !.w = wWrite(q1.w, b)]

\* http.Error(w, msg, code) on the writer the mux handed to the closure
httpError(q, msg, code) ==
    [q EXCEPT !.w = wWrite(wWriteHeader(q.w, code), msg \o "\n")]

\* http.Error(w, msg, code) on the responseWriter a handler was given
httpErrorTracked(q, msg, code) ==
    rwWrite(rwWriteHeader(q, code), msg \o "\n")

\* ------------------------------------------------------ path parameter store
\* variant of PathValue that falls back to the key when there is no value
PathValue_fallback(q, key) ==
    IF q.ctxParams.attached /\ key \in DOMAIN q.ctxParams.vals
    THEN q.ctxParams.vals[key]
    ELSE key

\* PathValue(r, key)
PathValue(q, key) ==
    IF q.ctxParams.attached /\ key \in DOMAIN q.ctxParams.vals
    THEN q.ctxParams.vals[key]
    ELSE ""

\* ----------------------------------------------------------------- the mux
\* http.ServeMux: a pattern matches a path with as many segments, equal at
\* the literal segments and non-empty at the {name} segments
MuxMatch(pattern, path) ==
    /\ Len(pattern) = Len(path)
    /\ \A i \in 1..Len(pattern) :
          IF pattern[i].wild THEN path[i] # "" ELSE pattern[i].s = path[i]

Literals(pattern) == Cardinality({ i \in 1..Len(pattern) : ~pattern[i].wild })

\* the registered pattern the mux resolves a path to: the most specific match
Resolve(rt, path) ==
    LET ms == { P \in Patterns : rt[P].registered /\ MuxMatch(P, path) }
    IN  IF ms = {} THEN NoPattern
        ELSE CHOOSE P \in ms : \A Q \in ms : Literals(P) >= Literals(Q)

\* the values the mux binds for the wildcards of the resolved pattern
MuxBind(pattern, path) ==
    LET names == { pattern[i].s : i \in { j \in 1..Len(pattern) : pattern[j].wild } }
    IN  [ n \in names |->
            path[CHOOSE i \in 1..Len(pattern) : pattern[i].wild /\ pattern[i].s = n] ]

\* ------------------------------------------------------------------ Router
MwLayer(name, i) == [mw |-> TRUE, name |-> name, idx |-> i]
HandlerLayer(name) == [mw |-> FALSE, name |-> name, idx |-> 0]

RECURSIVE wrap(_, _, _)
wrap(mws, i, result) ==
    IF i < 1 THEN result
    ELSE wrap(mws, i - 1, <<MwLayer(mws[i], i)>> \o result)

RECURSIVE wrapForward(_, _, _)
wrapForward(mws, i, result) ==
    IF i > Len(mws) THEN result
    ELSE wrapForward(mws, i + 1, <<MwLayer(mws[i], i)>> \o result)

\* variant of applyMiddleware that wraps in registration order, which makes
\* the last-registered middleware the outermost layer
applyMiddleware_forward(mws, handler) == wrapForward(mws, 1, <<HandlerLayer(handler)>>)

\* Router.applyMiddleware: the composed handler, outermost layer first
applyMiddleware(mws, handler) == wrap(mws, Len(mws), <<HandlerLayer(handler)>>)

Log(q, ev, i) == [q EXCEPT !.trace = Append(@, [ev |-> ev, idx |-> i])]

\* a layer calls next(ctx, w, r)
CallNext(q) == [q EXCEPT !.depth = @ + 1]

\* a layer returns e to its caller
Return(q, e) == [q EXCEPT !.pc = "out", !.depth = @ - 1, !.err = e]

\* the layer of the composed handler that is running
Layer(q) == q.chain[q.depth]

\* a layer panics with value v, or lets a panic pass through to its caller
Panic(q, v) == [q EXCEPT !.pc = "out", !.depth = @ - 1, !.panic = v, !.unwinding = TRUE]

\* ------------------------------------------------------- terminal handlers
RECURSIVE ApplyOps(_, _)
ApplyOps(q, ops) ==
    IF ops = <<>> THEN q
    ELSE ApplyOps(IF Head(ops).op = "WriteHeader"
                  THEN rwWriteHeader(q, Head(ops).code)
                  ELSE rwWrite(q, Head(ops).b),
                  Tail(ops))

\* a Handler: calls on the writer it was given, then returns or panics
ScriptHandler(q, s) ==
    LET q1 == ApplyOps(Log(q, "handler", 0), s.ops)
    IN  IF s.out.panic # "" THEN Panic(q1, s.out.panic) ELSE Return(q1, s.out.ret)

\* the handler of the integration test: writes PathValue(r, "name")
EchoHandler(q) ==
    LET name == PathValue(q, "name")
    IN  Return(rwWrite(rwWriteHeader(Log(q, "handler", 0), StatusOK), name), NoErr)

\* ---------------------------------------------------------------- middleware
\* w.Header().Set("X-Order", v); return next(ctx, w, r)
OrderMiddlewareCall(q, v) ==
    CallNext(SetHeader(Log(q, "pre", Layer(q).idx), "X-Order", v))

\* return errors.New("middleware error"), next is not called
RejectMiddlewareCall(q) ==
    Return(Log(q, "pre", Layer(q).idx), OpaqueErr("middleware error"))

\* w.WriteHeader(202); err := next(ctx, w, r); w.Write([]byte("m")); return err
WriterMiddlewareCall(q) ==
    CallNext(rwWriteHeader(Log(q, "pre", Layer(q).idx), 202))

WriterMiddlewareReturn(q) ==
    Return(rwWrite(Log(q, "post", Layer(q).idx), "m"), q.err)

\* RecoveryMiddleware: defer func() { recover ... }(); return next(ctx, w, r)
RecoveryMiddlewareCall(q) == CallNext(Log(q, "pre", Layer(q).idx))

\* RecoveryMiddleware: the deferred function and the return
RecoveryMiddlewareReturn(q) ==
    IF q.unwinding
    THEN LET q1 == httpErrorTracked(Log(q, "recover", Layer(q).idx),
                                    "Internal Server Error", StatusInternalServerError)
         IN  Return([q1 EXCEPT !.unwinding = FALSE], OpaqueErr("panic: " \o q.panic))
    ELSE Return(Log(q, "post", Layer(q).idx), q.err)

\* r.RemoteAddr of the request
RemoteAddr == "192.0.2.1:1234"

\* variant of RequestIDMiddleware that sets the header only
RequestIDMiddlewareCall_headeronly(q, requestID) ==
    CallNext(SetHeader(Log(q, "pre", Layer(q).idx), "X-Request-ID", requestID))

\* RequestIDMiddleware: the generated id goes into the context and the
\* header, the client address into the context, then next is called
RequestIDMiddlewareCall(q, requestID) ==
    LET q1 == [q EXCEPT !.ctx = WithValue(@, "request_id", requestID)]
        q2 == SetHeader(Log(q1, "pre", Layer(q).idx), "X-Request-ID", requestID)
        q3 == [q2 EXCEPT !.ctx = WithValue(@, "client_ip", RemoteAddr)]
    IN  CallNext(q3)

\* UserContextMiddleware: a request without Authorization is anonymous
UserContextMiddlewareCall(q) ==
    CallNext([Log(q, "pre", Layer(q).idx) EXCEPT !.ctx = WithValue(@, "user_id", "anonymous")])

\* ContextualLogger, LoggingMiddleware: the logger is put into the context or
\* a line is logged, then next is called
PassMiddlewareCall(q) == CallNext(Log(q, "pre", Layer(q).idx))

\* the CORSMiddleware instances a Router may be given, by their allowedOrigins
CORSKinds == {"cors-a", "cors-b-star", "cors-none"}
AllowedOrigins(name) ==
    CASE name = "cors-a"      -> <<"http://a">>
      [] name = "cors-b-star" -> <<"http://b", "*">>
      [] name = "cors-none"   -> <<>>

RECURSIVE allowOrigin(_, _, _)
\* the loop over allowedOrigins: the first entry that is "*" or the origin
\* sets the header and ends the loop
allowOrigin(q, allowedOrigins, i) ==
    IF i > Len(allowedOrigins) THEN q
    ELSE IF allowedOrigins[i] = "*" \/ allowedOrigins[i] = q.origin
         THEN SetHeader(q, "Access-Control-Allow-Origin", q.origin)
         ELSE allowOrigin(q, allowedOrigins, i + 1)

RECURSIVE allowExact(_, _, _)
allowExact(q, allowedOrigins, i) ==
    IF i > Len(allowedOrigins) THEN q
    ELSE IF allowedOrigins[i] = q.origin
         THEN SetHeader(q, "Access-Control-Allow-Origin", q.origin)
         ELSE allowExact(q, allowedOrigins, i + 1)

\* the preflight branch of CORSMiddleware: next is not called
CORSPreflight(q) ==
    LET q1 == SetHeader(q, "Access-Control-Allow-Methods",
                        "GET, POST, PUT, DELETE, PATCH, OPTIONS")
        q2 == SetHeader(q1, "Access-Control-Allow-Headers", "Content-Type, Authorization")
        q3 == SetHeader(q2, "Access-Control-Max-Age", "3600")
    IN  Return(rwWriteHeader(q3, StatusOK), NoErr)

\* variant of CORSMiddleware that does not know the "*" entry
CORSMiddlewareCall_exact(q, allowedOrigins) ==
    LET q0 == Log(q, "pre", Layer(q).idx)
    IN  IF q.method = "OPTIONS" THEN CORSPreflight(q0)
        ELSE CallNext(allowExact(q0, allowedOrigins, 1))

\* CORSMiddleware(allowedOrigins)
CORSMiddlewareCall(q, allowedOrigins) ==
    LET q0 == Log(q, "pre", Layer(q).idx)
    IN  IF q.method = "OPTIONS" THEN CORSPreflight(q0)
        ELSE CallNext(allowOrigin(q0, allowedOrigins, 1))

\* context.DeadlineExceeded, the value of ctx.Err() once the deadline passed
DeadlineExceeded == OpaqueErr("context deadline exceeded")

\* ctx.Err()
ctxErr(ctx) ==
    CASE ctx.deadline = "exceeded" -> DeadlineExceeded
      [] ctx.deadline = "canceled" -> OpaqueErr("context canceled")
      [] OTHER                     -> NoErr

\* TimeoutMiddleware: ctx, cancel := context.WithTimeout(ctx, timeout);
\* next is called with the derived context
TimeoutMiddlewareCall(q) ==
    LET q1 == Log(q, "pre", Layer(q).idx)
    IN  CallNext([q1 EXCEPT !.ctx.deadline = IF @ = "none" THEN "pending" ELSE @])

\* variant of TimeoutMiddleware that gives up on the wrapped handler once the
\* deadline passed, answering with the context's error
TimeoutMiddlewareReturn_abort(q) ==
    LET q1 == [q EXCEPT !.ctx.deadline = IF @ = "pending" THEN "canceled" ELSE @]
    IN  IF q.unwinding THEN Panic(q1, q.panic)
        ELSE IF q.ctx.deadline = "exceeded"
             THEN Return(Log(q1, "post", Layer(q).idx), ctxErr(q.ctx))
             ELSE Return(Log(q1, "post", Layer(q).idx), q.err)

\* TimeoutMiddleware: the deferred cancel() and the return of what next
\* returned; a panic passes through
TimeoutMiddlewareReturn(q) ==
    LET q1 == [q EXCEPT !.ctx.deadline = IF @ = "pending" THEN "canceled" ELSE @]
    IN  IF q.unwinding THEN Panic(q1, q.panic)
        ELSE Return(Log(q1, "post", Layer(q).idx), q.err)

\* the handler of TestTimeoutMiddleware: it waits for ctx.Done() or for its
\* own timer, whichever comes first
SelectHandler(q) ==
    LET q1 == Log(q, "handler", 0)
    IN  IF q.ctx.deadline = "exceeded"
        THEN Return(q1, ctxErr(q.ctx))
        ELSE Return(rwWrite(q1, "success"), NoErr)

\* middleware that set X-Order after next came back, and the value each sets
AfterKinds == {"afterfirst", "aftersecond"}
AfterValue(name) == IF name = "afterfirst" THEN "first" ELSE "second"

\* err := next(ctx, w, r); w.Header().Set("X-Order", v); return err
AfterMiddlewareCall(q) == CallNext(Log(q, "pre", Layer(q).idx))

AfterMiddlewareReturn(q, v) ==
    Return(SetHeader(Log(q, "post", Layer(q).idx), "X-Order", v), q.err)

\* the code of a middleware layer up to and including its call of next
MiddlewarePre(q) ==
    CASE Layer(q).name = "first"    -> OrderMiddlewareCall(q, "first")
      [] Layer(q).name = "second"   -> OrderMiddlewareCall(q, "second")
      [] Layer(q).name = "reject"   -> RejectMiddlewareCall(q)
      [] Layer(q).name = "writer"   -> WriterMiddlewareCall(q)
      [] Layer(q).name = "recovery" -> RecoveryMiddlewareCall(q)
      [] Layer(q).name = "usercontext" -> UserContextMiddlewareCall(q)
      [] Layer(q).name = "timeout"  -> TimeoutMiddlewareCall(q)
      [] Layer(q).name \in AfterKinds -> AfterMiddlewareCall(q)
      [] Layer(q).name \in CORSKinds ->
            CORSMiddlewareCall(q, AllowedOrigins(Layer(q).name))
      [] Layer(q).name \in {"ctxlogger", "logging"} -> PassMiddlewareCall(q)

\* the code of a middleware layer after next came back; a panic passes
\* through every layer but RecoveryMiddleware without running its code
MiddlewarePost(q) ==
    CASE Layer(q).name = "recovery" -> RecoveryMiddlewareReturn(q)
      [] Layer(q).name = "timeout"  -> TimeoutMiddlewareReturn(q)
      [] q.unwinding                -> Panic(q, q.panic)
      [] Layer(q).name = "writer"   -> WriterMiddlewareReturn(q)
      [] Layer(q).name \in AfterKinds ->
            AfterMiddlewareReturn(q, AfterValue(Layer(q).name))
      [] OTHER                      -> Return(Log(q, "post", Layer(q).idx), q.err)

\* ------------------------------------------------- the registered closures
\* variant of the error translation that does not recognise HTTPError
HandleTranslate_opaque(q) ==
    IF q.err # NoErr /\ ~q.rw.wroteHeader
    THEN httpError(q, ErrorText(q.err), StatusInternalServerError)
    ELSE q

\* variant of the error translation that does not look at wroteHeader
HandleTranslate_always(q) ==
    IF q.err # NoErr
    THEN IF q.err.kind = "HTTPError"
         THEN httpError(q, q.err.text, q.err.code)
         ELSE httpError(q, ErrorText(q.err), StatusInternalServerError)
    ELSE q

\* the error translation after the composed handler returned
HandleTranslate(q) ==
    IF q.err # NoErr /\ ~q.rw.wroteHeader
    THEN IF q.err.kind = "HTTPError"
         THEN httpError(q, q.err.text, q.err.code)
         ELSE httpError(q, ErrorText(q.err), StatusInternalServerError)
    ELSE q

\* variant of the closure without the method check
HandleEnter_nocheck(q, method, handler, mws) ==
    [q EXCEPT !.pc = "in",
              !.chain = applyMiddleware(mws, handler),
              !.depth = 1,
              !.rw = NewTracker]

\* the closure Handle registers, up to the call of the composed handler
HandleEnter(q, method, handler, mws) ==
    IF q.method # method
    THEN [httpError(q, "Method not allowed", StatusMethodNotAllowed) EXCEPT !.pc = "done"]
    ELSE [q EXCEPT !.pc = "in",
                   !.chain = applyMiddleware(mws, handler),
                   !.depth = 1,
                   !.rw = NewTracker]

\* variant of the closure that ignores the error the composed handler returned
HandleExit_ignore(q) ==
    IF q.unwinding THEN [q EXCEPT !.pc = "panicked"]
    ELSE [q EXCEPT !.pc = "done"]

\* the closure Handle registers, after the composed handler came back
HandleExit(q) ==
    IF q.unwinding THEN [q EXCEPT !.pc = "panicked"]
    ELSE [HandleTranslate(q) EXCEPT !.pc = "done"]

\* variant of ANY's error translation that does not recognise HTTPError
ANYTranslate_opaque(q) ==
    IF q.err # NoErr /\ ~q.rw.wroteHeader
    THEN httpError(q, ErrorText(q.err), StatusInternalServerError)
    ELSE q

\* the error translation of the closure ANY registers
ANYTranslate(q) ==
    IF q.err # NoErr /\ ~q.rw.wroteHeader
    THEN IF q.err.kind = "HTTPError"
         THEN httpError(q, q.err.text, q.err.code)
         ELSE httpError(q, ErrorText(q.err), StatusInternalServerError)
    ELSE q

\* the closure ANY registers, up to the call of the composed handler
ANYEnter(q, handler, mws) ==
    [q EXCEPT !.pc = "in",
              !.chain = applyMiddleware(mws, handler),
              !.depth = 1,
              !.rw = NewTracker]

\* the closure ANY registers, after the composed handler came back
ANYExit(q) ==
    IF q.unwinding THEN [q EXCEPT !.pc = "panicked"]
    ELSE [ANYTranslate(q) EXCEPT !.pc = "done"]

\* ------------------------------------------------- a request served whole
RECURSIVE RunLayers(_)
\* the middleware layers run until the terminal handler is to be called or
\* control is back in the closure
RunLayers(q) ==
    IF q.pc = "in" /\ Layer(q).mw THEN RunLayers(MiddlewarePre(q))
    ELSE IF q.pc = "out" /\ q.depth >= 1 THEN RunLayers(MiddlewarePost(q))
    ELSE q

\* the composed handler runs from its call to its return, the scripted
\* handler behaving as s
RunComposed(q, s) ==
    LET q1 == RunLayers(q)
    IN  IF q1.pc = "in"
        THEN RunLayers(IF Layer(q1).name = "echo" THEN EchoHandler(q1)
                       ELSE ScriptHandler(q1, s))
        ELSE q1

\* the closure Handle(method, path, handler) registers, from call to return
ViaHandle(q, method, handler, mws, s) ==
    LET e == HandleEnter(q, method, handler, mws)
    IN  IF e.pc = "done" THEN e ELSE HandleExit(RunComposed(e, s))

\* the closure ANY(path, handler) registers, from call to return
ViaANY(q, handler, mws, s) ==
    ANYExit(RunComposed(ANYEnter(q, handler, mws), s))

\* ----------------------------------------------------------------- actions
Init ==
    /\ middleware = <<>>
    /\ routes = [P \in Patterns |-> NoRoute]
    /\ req = IdleReq

\* no request is being served
Quiet == req.pc \in {"idle", "done", "panicked"}

\* the Router is being set up: registration happens at start-up, before the
\* first request is served (r.middleware and the mux are not synchronised)
Starting == req.pc = "idle"

\* Router.Use(middleware...)
Use(ms) ==
    /\ Starting
    /\ Len(middleware) + Len(ms) <= MaxMiddleware
    /\ middleware' = middleware \o ms
    /\ UNCHANGED <<routes, req>>

\* Router.Handle(method, path, handler); the mux panics on a pattern that is
\* registered already
Handle(method, pattern, handler) ==
    /\ Starting
    /\ ~routes[pattern].registered
    /\ routes' = [routes EXCEPT ![pattern] =
                    [registered |-> TRUE, any |-> FALSE, method |-> method, handler |-> handler]]
    /\ UNCHANGED <<middleware, req>>

\* Router.GET(path, handler)
GET(pattern, handler) == Handle("GET", pattern, handler)

\* Router.POST(path, handler)
POST(pattern, handler) == Handle("POST", pattern, handler)

\* Router.ANY(path, handler)
ANY(pattern, handler) ==
    /\ Starting
    /\ ~routes[pattern].registered
    /\ routes' = [routes EXCEPT ![pattern] =
                    [registered |-> TRUE, any |-> TRUE, method |-> "", handler |-> handler]]
    /\ UNCHANGED <<middleware, req>>

\* variant of ServeHTTP that wraps whatever the mux resolved, the not-found
\* handler included, in the middleware chain
Dispatch_wrapped(rt, mws, method, path) ==
    LET fresh == [IdleReq EXCEPT !.method = method, !.path = path]
        pat == Resolve(rt, path)
    IN  IF pat = NoPattern
        THEN [fresh EXCEPT !.pc = "in",
                           !.chain = applyMiddleware(mws, "script"),
                           !.depth = 1]
        ELSE [fresh EXCEPT !.pc = "matched",
                           !.pattern = pat,
                           !.muxVals = MuxBind(pat, path)]

\* Router.ServeHTTP: r.mux.ServeHTTP(w, req); the mux resolves the pattern
\* and answers 404 itself when there is none
Dispatch(rt, mws, method, path) ==
    LET fresh == [IdleReq EXCEPT !.method = method, !.path = path]
        pat == Resolve(rt, path)
    IN  IF pat = NoPattern
        THEN [httpError(fresh, "404 page not found", StatusNotFound) EXCEPT !.pc = "done"]
        ELSE [fresh EXCEPT !.pc = "matched",
                           !.pattern = pat,
                           !.muxVals = MuxBind(pat, path)]

ServeHTTP(method, path) ==
    /\ Quiet
    /\ req' = Dispatch(routes, middleware, method, path)
    /\ UNCHANGED <<middleware, routes>>

\* variant of the closure that works on the middleware list as it was when
\* the route was registered
ClosureMiddleware_captured(rt, mws) == rt.seen

\* the middleware the closure composes: r.applyMiddleware reads r.middleware
\* of the Router the closure holds, when the request is served
ClosureMiddleware(rt, mws) == mws

\* the mux calls the closure Handle registered
HandleServe ==
    /\ req.pc = "matched"
    /\ ~routes[req.pattern].any
    /\ req' = HandleEnter(req, routes[req.pattern].method,
                          routes[req.pattern].handler,
                          ClosureMiddleware(routes[req.pattern], middleware))
    /\ UNCHANGED <<middleware, routes>>

\* the mux calls the closure ANY registered
ANYServe ==
    /\ req.pc = "matched"
    /\ routes[req.pattern].any
    /\ req' = ANYEnter(req, routes[req.pattern].handler, middleware)
    /\ UNCHANGED <<middleware, routes>>

\* a middleware layer is called and runs up to its call of next
MiddlewareCall ==
    /\ req.pc = "in"
    /\ Layer(req).mw
    /\ Layer(req).name # "requestid"
    /\ req' = MiddlewarePre(req)
    /\ UNCHANGED <<middleware, routes>>

\* the terminal handler is called and runs
HandlerCall ==
    /\ req.pc = "in"
    /\ ~Layer(req).mw
    /\ \/ /\ Layer(req).name = "script"
          /\ \E s \in Scripts : req' = ScriptHandler(req, s)
       \/ /\ Layer(req).name = "echo"
          /\ req' = EchoHandler(req)
    /\ UNCHANGED <<middleware, routes>>

\* control comes back to a middleware layer
MiddlewareReturn ==
    /\ req.pc = "out"
    /\ req.depth >= 1
    /\ req' = MiddlewarePost(req)
    /\ UNCHANGED <<middleware, routes>>

\* the composed handler came back to the closure Handle registered
HandleReturn ==
    /\ req.pc = "out"
    /\ req.depth = 0
    /\ ~routes[req.pattern].any
    /\ req' = HandleExit(req)
    /\ UNCHANGED <<middleware, routes>>

\* the composed handler came back to the closure ANY registered
ANYReturn ==
    /\ req.pc = "out"
    /\ req.depth = 0
    /\ routes[req.pattern].any
    /\ req' = ANYExit(req)
    /\ UNCHANGED <<middleware, routes>>

Next ==
    \/ \E ms \in SeqsUpTo(MiddlewareKinds, MaxMiddleware) \ {<<>>} : Use(ms)
    \/ \E m \in RouteMethods, P \in Patterns : \E h \in HandlersFor(P) : Handle(m, P, h)
    \/ \E P \in Patterns : \E h \in HandlersFor(P) : GET(P, h)
    \/ \E P \in Patterns : \E h \in HandlersFor(P) : POST(P, h)
    \/ \E P \in Patterns : \E h \in HandlersFor(P) : ANY(P, h)
    \/ \E m \in RequestMethods, p \in Paths : ServeHTTP(m, p)
    \/ HandleServe
    \/ ANYServe
    \/ MiddlewareCall
    \/ HandlerCall
    \/ MiddlewareReturn
    \/ HandleReturn
    \/ ANYReturn

Spec == Init /\ [][Next]_vars

\* ------------------------------------------- a responseWriter on its own
\* the statuses and the bytes a caller hands to a responseWriter
RWStatuses == {201, 404}
RWChunks == {"hi", "yo"}
\* most calls made on one responseWriter
MaxCalls == 4

\* rw := &responseWriter{ResponseWriter: httptest.NewRecorder()}
InitRW ==
    /\ middleware = <<>>
    /\ routes = [P \in Patterns |-> NoRoute]
    /\ req = [IdleReq EXCEPT !.pc = "rw"]

\* rw.WriteHeader(status)
RWWriteHeader(status) ==
    /\ req.pc = "rw"
    /\ Len(req.trace) < MaxCalls
    /\ req' = Log(rwWriteHeader(req, status), "WriteHeader", status)
    /\ UNCHANGED <<middleware, routes>>

\* rw.Write(b)
RWWrite(b) ==
    /\ req.pc = "rw"
    /\ Len(req.trace) < MaxCalls
    /\ req' = Log(rwWrite(req, b), "Write", 0)
    /\ UNCHANGED <<middleware, routes>>

NextRW ==
    \/ \E status \in RWStatuses : RWWriteHeader(status)
    \/ \E b \in RWChunks : RWWrite(b)

SpecRW == InitRW /\ [][NextRW]_vars

\* ------------------------------------------------ the path matcher on its own
\* most segments a pattern or a path is built from
MaxSegs == 2

\* a string is the sequence of its characters; the path separator
Sep == "/"

\* the segments patterns and paths are built from: u, {i}, {n}, the empty
\* segment (two separators in a row); and u, p, 4, the empty segment
PatternSegs == { <<"u">>, <<"{", "i", "}">>, <<"{", "n", "}">>, <<>> }
PathSegs == { <<"u">>, <<"p">>, <<"4">>, <<>> }

RECURSIVE Join(_)
\* strings.Join(segs, "/")
Join(segs) ==
    IF segs = <<>> THEN <<>>
    ELSE IF Len(segs) = 1 THEN segs[1]
    ELSE segs[1] \o <<Sep>> \o Join(Tail(segs))

\* the strings over a set of segments, with or without a leading and a
\* trailing separator: "", "/", "/u", "u/{i}/", "//u", ...
StringsOver(S) ==
    { (IF lead THEN <<Sep>> ELSE <<>>) \o Join(segs) \o (IF trail THEN <<Sep>> ELSE <<>>) :
        lead \in BOOLEAN, trail \in BOOLEAN, segs \in SeqsUpTo(S, MaxSegs) }

RECURSIVE TrimLeft(_)
TrimLeft(s) == IF s # <<>> /\ Head(s) = Sep THEN TrimLeft(Tail(s)) ELSE s

RECURSIVE TrimRight(_)
TrimRight(s) ==
    IF s # <<>> /\ s[Len(s)] = Sep THEN TrimRight(SubSeq(s, 1, Len(s) - 1)) ELSE s

\* strings.Trim(s, "/")
Trim(s) == TrimRight(TrimLeft(s))

RECURSIVE Split(_)
\* strings.Split(s, "/"): one more element than there are separators
Split(s) ==
    IF \E i \in 1..Len(s) : s[i] = Sep
    THEN LET i == CHOOSE k \in 1..Len(s) : s[k] = Sep /\ \A j \in 1..(k - 1) : s[j] # Sep
         IN  <<SubSeq(s, 1, i - 1)>> \o Split(SubSeq(s, i + 1, Len(s)))
    ELSE <<s>>

\* strings.HasPrefix(ps, "{"), strings.HasSuffix(ps, "}")
HasPrefix(ps, c) == ps # <<>> /\ ps[1] = c
HasSuffix(ps, c) == ps # <<>> /\ ps[Len(ps)] = c

\* strings.TrimPrefix(ps, "{"), strings.TrimSuffix(ps, "}")
TrimPrefix(ps, c) == IF HasPrefix(ps, c) THEN Tail(ps) ELSE ps
TrimSuffix(ps, c) == IF HasSuffix(ps, c) THEN SubSeq(ps, 1, Len(ps) - 1) ELSE ps

\* params[key] = value
Put(m, k, v) == [x \in DOMAIN m \cup {k} |-> IF x = k THEN v ELSE m[x]]

\* a map[string]string value: nil, or a map
NilMap == [nil |-> TRUE, vals |-> EmptyMap]
MakeMap(m) == [nil |-> FALSE, vals |-> m]

RECURSIVE bindSegs(_, _, _, _)
\* the loop of extractPathParams over the pattern's segments
bindSegs(pSegs, aSegs, i, params) ==
    IF i > Len(pSegs) THEN params
    ELSE LET ps == pSegs[i]
         IN  IF HasPrefix(ps, "{") /\ HasSuffix(ps, "}")
             THEN bindSegs(pSegs, aSegs, i + 1,
                           Put(params, TrimSuffix(TrimPrefix(ps, "{"), "}"), aSegs[i]))
             ELSE bindSegs(pSegs, aSegs, i + 1, params)

RECURSIVE bindRaw(_, _, _, _)
bindRaw(pSegs, aSegs, i, params) ==
    IF i > Len(pSegs) THEN params
    ELSE LET ps == pSegs[i]
         IN  IF HasPrefix(ps, "{") /\ HasSuffix(ps, "}")
             THEN bindRaw(pSegs, aSegs, i + 1, Put(params, ps, aSegs[i]))
             ELSE bindRaw(pSegs, aSegs, i + 1, params)

\* variant of extractPathParams that gives up only when the path is shorter
\* than the pattern
extractPathParams_prefix(pattern, path) ==
    LET pSegs == Split(Trim(pattern))
        aSegs == Split(Trim(path))
    IN  IF Len(pSegs) > Len(aSegs) THEN NilMap
        ELSE MakeMap(bindSegs(pSegs, aSegs, 1, EmptyMap))

\* variant of extractPathParams that keeps the braces in the key
extractPathParams_rawkey(pattern, path) ==
    LET pSegs == Split(Trim(pattern))
        aSegs == Split(Trim(path))
    IN  IF Len(pSegs) # Len(aSegs) THEN NilMap
        ELSE MakeMap(bindRaw(pSegs, aSegs, 1, EmptyMap))

\* extractPathParams(pattern, path)
extractPathParams(pattern, path) ==
    LET pSegs == Split(Trim(pattern))
        aSegs == Split(Trim(path))
    IN  IF Len(pSegs) # Len(aSegs) THEN NilMap
        ELSE MakeMap(bindSegs(pSegs, aSegs, 1, EmptyMap))

\* a call of extractPathParams about to be made
InitPP ==
    /\ middleware = <<>>
    /\ routes = [P \in Patterns |-> NoRoute]
    /\ \E pattern \in StringsOver(PatternSegs), path \in StringsOver(PathSegs) :
          req = [pc |-> "extract", pattern |-> pattern, path |-> path, params |-> NilMap]

\* params := extractPathParams(pattern, path)
ExtractPathParams ==
    /\ req.pc = "extract"
    /\ req' = [req EXCEPT !.pc = "extracted",
                          !.params = extractPathParams(req.pattern, req.path)]
    /\ UNCHANGED <<middleware, routes>>

NextPP == ExtractPathParams

SpecPP == InitPP /\ [][NextPP]_vars

\* ------------------------------------------ the path parameter store on its own
\* most SetPathValue / SetPathValues calls made in one run
MaxStoreCalls == 2

\* the keys and values callers use, and the map literals they hand to
\* SetPathValues: {}, {a: 2}, {a: 1, b: 2}
StoreKeys == {"a", "b"}
StoreValues == {"1", "2"}
StoreMaps == { EmptyMap, ("a" :> "2"), ("a" :> "1" @@ "b" :> "2") }

\* what r.Context().Value(pathParamsKey{}) holds: nothing, a nil map, or a
\* reference to a map on the heap
NoValue == [kind |-> "none", ref |-> 0]
NilValue == [kind |-> "nil", ref |-> 0]
MapValue(a) == [kind |-> "map", ref |-> a]

\* a map[string]string argument: nil or a reference
NilArg == [nil |-> TRUE, ref |-> 0]
RefArg(a) == [nil |-> FALSE, ref |-> a]

NoRead == [r |-> 0, key |-> "", value |-> ""]

\* the requests a run can hold: the first one and one per call
StoreReqs == 1..(MaxStoreCalls + 1)

\* request r of the store as PathValue sees it: the type assertion succeeds
\* on a map value, nil or not, and a nil map has no keys
Bound(q, r) ==
    [ ctxParams |->
        [ attached |-> q.reqs[r].kind # "none",
          vals     |-> IF q.reqs[r].kind = "map" THEN q.heap[q.reqs[r].ref] ELSE EmptyMap ] ]

\* SetPathValues(r, params): the request it returns
SetPathValues(q, r, params) ==
    IF params.nil
    THEN [q EXCEPT !.ret = r]
    ELSE [q EXCEPT !.reqs = Append(@, MapValue(params.ref)),
                   !.ret = Len(q.reqs) + 1]

\* variant of SetPathValue that starts from an empty map every time
SetPathValue_fresh(q, r, key, value) ==
    LET heap == Append(q.heap, Put(EmptyMap, key, value))
    IN  SetPathValues([q EXCEPT !.heap = heap], r, RefArg(Len(heap)))

\* variant of SetPathValue that writes into the map that is attached
SetPathValue_inplace(q, r, key, value) ==
    IF q.reqs[r].kind = "map"
    THEN SetPathValues([q EXCEPT !.heap[q.reqs[r].ref] = Put(@, key, value)],
                       r, RefArg(q.reqs[r].ref))
    ELSE LET heap == Append(q.heap, Put(EmptyMap, key, value))
         IN  SetPathValues([q EXCEPT !.heap = heap], r, RefArg(Len(heap)))

\* SetPathValue(r, key, value): copies the attached map when there is one
SetPathValue(q, r, key, value) ==
    LET existing == IF q.reqs[r].kind = "map" THEN q.heap[q.reqs[r].ref] ELSE EmptyMap
        heap == Append(q.heap, Put(existing, key, value))
    IN  SetPathValues([q EXCEPT !.heap = heap], r, RefArg(Len(heap)))

\* one request: with nothing attached, with a nil map attached, or with
\* {a: 1} attached
InitStore ==
    /\ middleware = <<>>
    /\ routes = [P \in Patterns |-> NoRoute]
    /\ \E start \in { [heap |-> <<>>, reqs |-> <<NoValue>>],
                      [heap |-> <<>>, reqs |-> <<NilValue>>],
                      [heap |-> <<("a" :> "1")>>, reqs |-> <<MapValue(1)>>] } :
          req = [ pc    |-> "store",
                  heap  |-> start.heap,     \* the maps, by address
                  reqs  |-> start.reqs,     \* the requests, by the value they carry
                  calls |-> <<>>,           \* the calls made
                  ret   |-> 0,              \* the request the last call returned
                  got   |-> NoRead ]        \* the last PathValue read

\* r2 := SetPathValue(r, key, value)
CallSetPathValue(r, key, value) ==
    /\ req.pc = "store"
    /\ r \in 1..Len(req.reqs)
    /\ Len(req.calls) < MaxStoreCalls
    /\ req' = [SetPathValue(req, r, key, value) EXCEPT
                 !.calls = Append(@, [op |-> "SetPathValue", r |-> r, key |-> key,
                                      value |-> value, nil |-> FALSE, m |-> EmptyMap,
                                      ret |-> Len(req.reqs) + 1]),
                 !.got = NoRead]
    /\ UNCHANGED <<middleware, routes>>

\* r2 := SetPathValues(r, nil)
CallSetPathValuesNil(r) ==
    /\ req.pc = "store"
    /\ r \in 1..Len(req.reqs)
    /\ Len(req.calls) < MaxStoreCalls
    /\ LET q == SetPathValues(req, r, NilArg)
       IN  req' = [q EXCEPT
                     !.calls = Append(@, [op |-> "SetPathValues", r |-> r, key |-> "",
                                          value |-> "", nil |-> TRUE, m |-> EmptyMap,
                                          ret |-> q.ret]),
                     !.got = NoRead]
    /\ UNCHANGED <<middleware, routes>>

\* r2 := SetPathValues(r, map[string]string{...})
CallSetPathValues(r, m) ==
    /\ req.pc = "store"
    /\ r \in 1..Len(req.reqs)
    /\ Len(req.calls) < MaxStoreCalls
    /\ LET heap == Append(req.heap, m)
           q == SetPathValues([req EXCEPT !.heap = heap], r, RefArg(Len(heap)))
       IN  req' = [q EXCEPT
                     !.calls = Append(@, [op |-> "SetPathValues", r |-> r, key |-> "",
                                          value |-> "", nil |-> FALSE, m |-> m,
                                          ret |-> q.ret]),
                     !.got = NoRead]
    /\ UNCHANGED <<middleware, routes>>

\* r2 := SetPathValues(r, params), params being a map the caller attached
\* to a request before: both requests then carry the same map
CallSetPathValuesShared(r, a) ==
    /\ req.pc = "store"
    /\ r \in 1..Len(req.reqs)
    /\ a \in 1..Len(req.heap)
    /\ Len(req.calls) < MaxStoreCalls
    /\ LET q == SetPathValues(req, r, RefArg(a))
       IN  req' = [q EXCEPT
                     !.calls = Append(@, [op |-> "SetPathValues", r |-> r, key |-> "",
                                          value |-> "", nil |-> FALSE, m |-> req.heap[a],
                                          ret |-> q.ret]),
                     !.got = NoRead]
    /\ UNCHANGED <<middleware, routes>>

\* v := PathValue(r, key)
CallPathValue(r, key) ==
    /\ req.pc = "store"
    /\ r \in 1..Len(req.reqs)
    /\ req' = [req EXCEPT !.got = [r |-> r, key |-> key,
                                   value |-> PathValue(Bound(req, r), key)]]
    /\ UNCHANGED <<middleware, routes>>

NextStore ==
    \/ \E r \in StoreReqs, key \in StoreKeys, value \in StoreValues :
          CallSetPathValue(r, key, value)
    \/ \E r \in StoreReqs : CallSetPathValuesNil(r)
    \/ \E r \in StoreReqs, m \in StoreMaps : CallSetPathValues(r, m)
    \/ \E r \in StoreReqs, a \in StoreReqs : CallSetPathValuesShared(r, a)
    \/ \E r \in StoreReqs, key \in StoreKeys : CallPathValue(r, key)

SpecStore == InitStore /\ [][NextStore]_vars

\* ------------------------------------------- the default middleware stack
\* DefaultMiddlewareStack(logger), in the order it returns the middleware
DefaultMiddlewareStack == <<"requestid", "usercontext", "ctxlogger", "logging", "recovery">>

\* the ids generateRequestID may return
RequestIDs == {"id1", "id2"}

\* server.Use(shttp.DefaultMiddlewareStack(logger)...)
UseDefault ==
    /\ Starting
    /\ middleware = <<>>
    /\ middleware' = middleware \o DefaultMiddlewareStack
    /\ UNCHANGED <<routes, req>>

\* the RequestIDMiddleware layer is called and runs up to its call of next
RequestIDCall ==
    /\ req.pc = "in"
    /\ Layer(req).mw
    /\ Layer(req).name = "requestid"
    /\ \E requestID \in RequestIDs : req' = RequestIDMiddlewareCall(req, requestID)
    /\ UNCHANGED <<middleware, routes>>

\* a middleware layer other than RecoveryMiddleware panics when it is called
MiddlewarePanic ==
    /\ req.pc = "in"
    /\ Layer(req).mw
    /\ Layer(req).name # "recovery"
    /\ req' = Panic(Log(req, "panic", Layer(req).idx), "fault")
    /\ UNCHANGED <<middleware, routes>>

NextDefault ==
    \/ UseDefault
    \/ \E P \in Patterns : \E h \in HandlersFor(P) : GET(P, h)
    \/ \E m \in RequestMethods, p \in Paths : ServeHTTP(m, p)
    \/ HandleServe
    \/ RequestIDCall
    \/ MiddlewareCall
    \/ MiddlewarePanic
    \/ HandlerCall
    \/ MiddlewareReturn
    \/ HandleReturn

SpecDefault == Init /\ [][NextDefault]_vars

\* --------------------------------------------- a Router with CORSMiddleware
\* the Origin header requests carry ("": none), and the methods routes are
\* registered for
Origins == {"", "http://a", "http://b"}
CORSRouteMethods == {"GET", "OPTIONS"}

\* Router.ServeHTTP for a request that carries an Origin header
ServeHTTPWithOrigin(method, path, origin) ==
    /\ Quiet
    /\ req' = [Dispatch(routes, middleware, method, path) EXCEPT !.origin = origin]
    /\ UNCHANGED <<middleware, routes>>

NextCORS ==
    \/ \E k \in CORSKinds : Use(<<k>>)
    \/ \E m \in CORSRouteMethods, P \in Patterns : \E h \in HandlersFor(P) : Handle(m, P, h)
    \/ \E P \in Patterns : \E h \in HandlersFor(P) : ANY(P, h)
    \/ \E m \in RequestMethods, p \in Paths, o \in Origins : ServeHTTPWithOrigin(m, p, o)
    \/ HandleServe
    \/ ANYServe
    \/ MiddlewareCall
    \/ HandlerCall
    \/ MiddlewareReturn
    \/ HandleReturn
    \/ ANYReturn

SpecCORS == Init /\ [][NextCORS]_vars

\* ------------------------------------------ a Router with TimeoutMiddleware
\* the handlers a route may be given: the ones of the pattern, or the handler
\* that waits on the context
TimeoutHandlersFor(P) == HandlersFor(P) \cup {"select"}

\* the timer of context.WithTimeout fires while the request is being served
DeadlinePasses ==
    /\ req.pc = "in"
    /\ req.ctx.deadline = "pending"
    /\ req' = [req EXCEPT !.ctx.deadline = "exceeded"]
    /\ UNCHANGED <<middleware, routes>>

\* the handler that waits on the context is called and runs
SelectHandlerCall ==
    /\ req.pc = "in"
    /\ ~Layer(req).mw
    /\ Layer(req).name = "select"
    /\ req' = SelectHandler(req)
    /\ UNCHANGED <<middleware, routes>>

NextTimeout ==
    \/ Use(<<"timeout">>)
    \/ \E m \in RouteMethods, P \in Patterns :
          \E h \in TimeoutHandlersFor(P) : Handle(m, P, h)
    \/ \E m \in RequestMethods, p \in Paths : ServeHTTP(m, p)
    \/ HandleServe
    \/ MiddlewareCall
    \/ DeadlinePasses
    \/ HandlerCall
    \/ SelectHandlerCall
    \/ MiddlewareReturn
    \/ HandleReturn

SpecTimeout == Init /\ [][NextTimeout]_vars

\* ------------------------------------- registration and Use in any order
\* the middleware that is added one call of Use at a time
LateKinds == {"first", "second"}

\* Router.Handle(method, path, handler), with the middleware list as it is at
\* the time of the call kept next to the route
HandleSeen(method, pattern, handler) ==
    /\ Starting
    /\ ~routes[pattern].registered
    /\ routes' = [routes EXCEPT ![pattern] =
                    [registered |-> TRUE, any |-> FALSE, method |-> method,
                     handler |-> handler, seen |-> middleware]]
    /\ UNCHANGED <<middleware, req>>

NextLate ==
    \/ \E k \in LateKinds : Use(<<k>>)
    \/ \E m \in RouteMethods, P \in Patterns : \E h \in HandlersFor(P) : HandleSeen(m, P, h)
    \/ \E m \in RequestMethods, p \in Paths : ServeHTTP(m, p)
    \/ HandleServe
    \/ MiddlewareCall
    \/ HandlerCall
    \/ MiddlewareReturn
    \/ HandleReturn

SpecLate == Init /\ [][NextLate]_vars

\* ------------------------------------ registering a pattern a second time
\* Router.Handle(method, path, handler) for a path the mux has already:
\* r.mux.HandleFunc(path, ...) panics, whatever the method is, and the
\* program ends before it serves a request
HandleRegistered(method, pattern, handler) ==
    /\ Starting
    /\ routes[pattern].registered
    /\ req' = [IdleReq EXCEPT !.pc = "crashed", !.method = method, !.pattern = pattern]
    /\ UNCHANGED <<middleware, routes>>

NextConflict ==
    \/ Use(<<"first">>)
    \/ \E m \in RouteMethods, P \in Patterns : \E h \in HandlersFor(P) : Handle(m, P, h)
    \/ \E m \in RouteMethods, P \in Patterns :
          \E h \in HandlersFor(P) : HandleRegistered(m, P, h)
    \/ \E P \in Patterns : \E h \in HandlersFor(P) : ANY(P, h)
    \/ \E m \in RequestMethods, p \in Paths : ServeHTTP(m, p)
    \/ HandleServe
    \/ ANYServe
    \/ MiddlewareCall
    \/ HandlerCall
    \/ MiddlewareReturn
    \/ HandleReturn
    \/ ANYReturn

SpecConflict == Init /\ [][NextConflict]_vars

\* ------------------------- a Router with middleware that act after next
NextAfter ==
    \/ \E k \in AfterKinds : Use(<<k>>)
    \/ \E m \in RouteMethods, P \in Patterns : \E h \in HandlersFor(P) : Handle(m, P, h)
    \/ \E m \in RequestMethods, p \in Paths : ServeHTTP(m, p)
    \/ HandleServe
    \/ MiddlewareCall
    \/ HandlerCall
    \/ MiddlewareReturn
    \/ HandleReturn

SpecAfter == Init /\ [][NextAfter]_vars

\* ------------------------------------- requests served at the same time
\* net/http serves every request on a goroutine of its own, all of them
\* calling ServeHTTP of the one Router.  In this specification req holds
\*   slots    : for every request what IdleReq describes, the writer
\*              net/http made for it included
\*   trackers : the responseWriter values the closures allocated
\* and a step is one request running one piece of code.
Requests == {1, 2}

ConcPaths == { <<"test">>, <<"nope">> }
ConcScripts == { s \in Scripts : Len(s.ops) <= 1 }
ConcMiddlewareLists == { <<"recovery">>, <<"first", "writer">> }

\* variant of the closure in which all requests work on one responseWriter
TrackerOf_shared(i) == 1

\* rw := &responseWriter{...}: the closure allocates a responseWriter every
\* time it is called, so request i works on a tracker of its own
TrackerOf(i) == i

\* variant of applyMiddleware that puts the list in calling order in place
applyMiddlewareLeaves_reversed(mws) == [i \in 1..Len(mws) |-> mws[Len(mws) + 1 - i]]

\* r.middleware after applyMiddleware ran: the loop reads r.middleware[i]
\* and assigns to nothing but its local handler
applyMiddlewareLeaves(mws) == mws

\* request i as its own code sees it
View(i) == [req.slots[i] EXCEPT !.rw = req.trackers[TrackerOf(i)]]

\* request i ran a piece of code that left it as q
Store(i, q) ==
    [slots    |-> [req.slots EXCEPT ![i] = q],
     trackers |-> [req.trackers EXCEPT ![TrackerOf(i)] = q.rw]]

\* a Router after start-up: one of the middleware lists, and the scripted
\* handler registered with GET for /test
InitConc ==
    /\ middleware \in ConcMiddlewareLists
    /\ routes = [P \in Patterns |->
                   IF P = <<Lit("test")>>
                   THEN [registered |-> TRUE, any |-> FALSE, method |-> "GET",
                         handler |-> "script"]
                   ELSE NoRoute]
    /\ req = [slots    |-> [i \in Requests |-> IdleReq],
              trackers |-> [i \in Requests |-> NewTracker]]

\* Router.ServeHTTP for request i
ConcServeHTTP(i, method, path) ==
    /\ req.slots[i].pc = "idle"
    /\ req' = [req EXCEPT !.slots[i] = Dispatch(routes, middleware, method, path)]
    /\ UNCHANGED <<middleware, routes>>

\* the mux calls the closure Handle registered, for request i
ConcHandleServe(i) ==
    /\ req.slots[i].pc = "matched"
    /\ req' = Store(i, HandleEnter(View(i), routes[req.slots[i].pattern].method,
                                   routes[req.slots[i].pattern].handler, middleware))
    /\ middleware' = applyMiddlewareLeaves(middleware)
    /\ UNCHANGED routes

ConcMiddlewareCall(i) ==
    /\ req.slots[i].pc = "in"
    /\ Layer(req.slots[i]).mw
    /\ req' = Store(i, MiddlewarePre(View(i)))
    /\ UNCHANGED <<middleware, routes>>

ConcHandlerCall(i) ==
    /\ req.slots[i].pc = "in"
    /\ ~Layer(req.slots[i]).mw
    /\ \E s \in ConcScripts : req' = Store(i, ScriptHandler(View(i), s))
    /\ UNCHANGED <<middleware, routes>>

ConcMiddlewareReturn(i) ==
    /\ req.slots[i].pc = "out"
    /\ req.slots[i].depth >= 1
    /\ req' = Store(i, MiddlewarePost(View(i)))
    /\ UNCHANGED <<middleware, routes>>

ConcHandleReturn(i) ==
    /\ req.slots[i].pc = "out"
    /\ req.slots[i].depth = 0
    /\ req' = Store(i, HandleExit(View(i)))
    /\ UNCHANGED <<middleware, routes>>

NextConc ==
    \/ \E i \in Requests, m \in RouteMethods, p \in ConcPaths : ConcServeHTTP(i, m, p)
    \/ \E i \in Requests : ConcHandleServe(i)
    \/ \E i \in Requests : ConcMiddlewareCall(i)
    \/ \E i \in Requests : ConcHandlerCall(i)
    \/ \E i \in Requests : ConcMiddlewareReturn(i)
    \/ \E i \in Requests : ConcHandleReturn(i)

SpecConc == InitConc /\ [][NextConc]_vars

\* =================================================================== claims
IsPrefix(s, t) == Len(s) <= Len(t) /\ \A i \in 1..Len(s) : s[i] = t[i]

\* the code that runs for n middleware that all call next around a handler
\* that returns: pre 1 .. pre n, the handler, post n .. post 1
ExpectedTrace(n) ==
    [ i \in 1..(2 * n + 1) |->
        IF i <= n THEN [ev |-> "pre", idx |-> i]
        ELSE IF i = n + 1 THEN [ev |-> "handler", idx |-> 0]
        ELSE [ev |-> "post", idx |-> 2 * n + 2 - i] ]

\* the request passed the method check and its composed handler was called
Called == req.pc \in {"in", "out", "done", "panicked"} /\ req.chain # <<>>

\* every registered middleware calls next
AllCallNext == \A i \in 1..Len(middleware) : middleware[i] # "reject"

\* the place of the last registered middleware that sets X-Order (0: none)
LastOrder ==
    LET S == { i \in 1..Len(middleware) : middleware[i] \in {"first", "second"} }
    IN  IF S = {} THEN 0 ELSE CHOOSE i \in S : \A j \in S : j <= i

\* C1: with middleware M1..Mn registered in that order that all call next and
\* a handler that returns, the code runs in the order pre M1, .., pre Mn, H,
\* post Mn, .., post M1; and when several of them set X-Order before calling
\* next the header holds the value of the one registered last, which is the
\* value sent unless a middleware registered before it wrote the response
C1_OnionOrder ==
    (Called /\ AllCallNext /\ req.panic = "") =>
        /\ IsPrefix(req.trace, ExpectedTrace(Len(middleware)))
        /\ req.pc = "done" => req.trace = ExpectedTrace(Len(middleware))
        /\ (req.pc = "done" /\ LastOrder > 0) =>
              /\ req.w.hdr["X-Order"] = middleware[LastOrder]
              /\ (\A i \in 1..LastOrder : middleware[i] # "writer") =>
                    RespHeader(req.w, "X-Order") = middleware[LastOrder]

C1_Witness ==
    /\ req.pc = "done"
    /\ middleware = <<"first", "second">>
    /\ req.trace = <<[ev |-> "pre", idx |-> 1], [ev |-> "pre", idx |-> 2],
                     [ev |-> "handler", idx |-> 0],
                     [ev |-> "post", idx |-> 2], [ev |-> "post", idx |-> 1]>>
    /\ RespHeader(req.w, "X-Order") = "second"

\* the request resolved to a route registered for one method
OnMethodRoute == req.pattern # NoPattern /\ ~routes[req.pattern].any

\* C2: a request that resolves to a route registered for method M and carries
\* another method is answered 405 "Method not allowed\n", and no middleware
\* and no handler runs for it
C2_MethodNotAllowed ==
    (req.pc # "matched" /\ OnMethodRoute /\ req.method # routes[req.pattern].method) =>
        /\ req.pc = "done"
        /\ req.w.codes = <<StatusMethodNotAllowed>>
        /\ RespStatus(req.w) = StatusMethodNotAllowed
        /\ RespBody(req.w) = "Method not allowed\n"
        /\ req.chain = <<>>
        /\ req.trace = <<>>

C2_Witness ==
    /\ req.pc = "done"
    /\ req.method = "POST"
    /\ OnMethodRoute
    /\ routes[req.pattern].method = "GET"
    /\ middleware # <<>>
    /\ RespStatus(req.w) = StatusMethodNotAllowed

\* the status the Router answers an error with
ErrorStatus(e) == IF e.kind = "HTTPError" THEN e.code ELSE StatusInternalServerError

\* C3: when the composed handler returned an error and no header was written
\* through the responseWriter, the Router writes one response: the status is
\* the HTTPError's StatusCode, or 500 for any other error, and the body is
\* the error's text and a newline
C3_ErrorTranslation ==
    (req.pc = "done" /\ Called /\ req.err # NoErr /\ ~req.rw.wroteHeader) =>
        /\ req.w.codes = <<ErrorStatus(req.err)>>
        /\ RespStatus(req.w) = ErrorStatus(req.err)
        /\ RespBody(req.w) = ErrorText(req.err) \o "\n"

C3_Witness ==
    /\ req.pc = "done"
    /\ Called
    /\ req.err = NewHTTPError(400, "invalid input")
    /\ ~req.rw.wroteHeader
    /\ RespStatus(req.w) = 400
    /\ RespBody(req.w) = "invalid input\n"

\* the composed handler came back to the closure with an error after a header
\* was written through the responseWriter
ErrorAfterHeader ==
    /\ req.pc = "out"
    /\ req.depth = 0
    /\ ~req.unwinding
    /\ req.err # NoErr
    /\ req.rw.wroteHeader

\* C4: when the composed handler returns an error after a header was written
\* through the responseWriter, the Router writes nothing: the response is
\* left as it was and the request is done
C4_ErrorSwallowed ==
    [][ErrorAfterHeader => (req'.w = req.w /\ req'.rw = req.rw /\ req'.pc = "done")]_vars

C4_Witness ==
    /\ req.pc = "done"
    /\ req.err = OpaqueErr("handler error")
    /\ req.rw.wroteHeader
    /\ req.w.codes = <<201>>
    /\ RespBody(req.w) = "hi"

\* C5: the underlying response writer receives WriteHeader at most once per
\* request, whatever the middleware and the handler do
C5_OneStatus == Len(req.w.codes) <= 1

C5_Witness ==
    /\ req.pc = "done"
    /\ req.panic = "boom"
    /\ \E i \in 1..Len(middleware) : middleware[i] = "recovery"
    /\ \E i \in 1..Len(middleware) : middleware[i] = "writer"
    /\ req.w.codes = <<202>>

\* the status of the first call made on the responseWriter
FirstStatus(tr) == IF tr[1].ev = "WriteHeader" THEN tr[1].idx ELSE StatusOK

\* C6: after any sequence of WriteHeader and Write calls on a responseWriter
\* only the status of the first call was forwarded to the underlying writer
\* and recorded; wroteHeader is false before the first call and true after it
C6_FirstStatusOnly ==
    /\ req.trace = <<>> =>
          /\ ~req.rw.wroteHeader
          /\ req.w.codes = <<>>
    /\ req.trace # <<>> =>
          /\ req.rw.wroteHeader
          /\ req.rw.status = FirstStatus(req.trace)
          /\ req.w.codes = <<FirstStatus(req.trace)>>
          /\ req.w.status = FirstStatus(req.trace)

C6_Witness ==
    /\ Len(req.trace) = 3
    /\ req.trace[1] = [ev |-> "WriteHeader", idx |-> 201]
    /\ req.trace[2] = [ev |-> "WriteHeader", idx |-> 404]
    /\ req.trace[3].ev = "Write"
    /\ req.rw.status = 201
    /\ req.w.codes = <<201>>

\* C7: a Write on a responseWriter that wrote no header yet sends 200 and
\* records it, a Write after the header was written leaves the recorded and
\* the sent status as they are, and both hand the bytes to the underlying writer
C7_Write ==
    [][\A b \in RWChunks : RWWrite(b) =>
          /\ req'.w.body = req.w.body \o b
          /\ req'.rw.wroteHeader
          /\ IF req.rw.wroteHeader
             THEN /\ req'.rw.status = req.rw.status
                  /\ req'.w.status = req.w.status
                  /\ req'.w.codes = req.w.codes
             ELSE /\ req'.rw.status = StatusOK
                  /\ req'.w.status = StatusOK
                  /\ req'.w.codes = <<StatusOK>>]_vars

C7_Witness ==
    /\ req.trace = <<[ev |-> "Write", idx |-> 0], [ev |-> "WriteHeader", idx |-> 404],
                     [ev |-> "Write", idx |-> 0]>>
    /\ req.rw.status = StatusOK
    /\ req.w.status = StatusOK
    /\ req.w.body = "hiyo"

\* C8: a request that resolved to a pattern gets from the closure of ANY the
\* response it gets from the closure of Handle registered for the request's
\* own method, with the same handler and middleware and whatever the handler
\* does; and a route registered with ANY never answers 405
C8_AnyLikeHandle ==
    /\ req.pc = "matched" =>
          \A s \in Scripts :
              LET h == routes[req.pattern].handler
                  a == ViaANY(req, h, middleware, s)
                  b == ViaHandle(req, req.method, h, middleware, s)
              IN  /\ a = b
                  /\ a.pc \in {"done", "panicked"}
    /\ (req.pattern # NoPattern /\ routes[req.pattern].any) =>
          /\ req.pc # "matched" => req.chain # <<>>
          /\ \A i \in 1..Len(req.w.codes) : req.w.codes[i] # StatusMethodNotAllowed

C8_Witness ==
    /\ req.pc = "done"
    /\ req.pattern # NoPattern
    /\ routes[req.pattern].any
    /\ req.method = "OPTIONS"
    /\ middleware # <<>>
    /\ req.err = NewHTTPError(400, "invalid input")
    /\ RespStatus(req.w) = 400

\* no registered pattern matches the path of the request
Unrouted ==
    \A P \in Patterns :
        routes[P].registered =>
            \/ Len(P) # Len(req.path)
            \/ \E i \in 1..Len(P) : ~P[i].wild /\ P[i].s # req.path[i]

\* C9: a request whose path resolves to no registered pattern is answered 404
\* "404 page not found\n", and no middleware and no handler runs for it
C9_NotFound ==
    (req.pc \notin {"idle", "rw"} /\ Unrouted) =>
        /\ req.pc = "done"
        /\ req.w.codes = <<StatusNotFound>>
        /\ RespStatus(req.w) = StatusNotFound
        /\ RespBody(req.w) = "404 page not found\n"
        /\ req.chain = <<>>
        /\ req.trace = <<>>

C9_Witness ==
    /\ req.pc = "done"
    /\ req.path = <<"nope">>
    /\ middleware # <<>>
    /\ \A P \in Patterns : routes[P].registered
    /\ RespStatus(req.w) = StatusNotFound

\* the request was served by the echo handler on /hello/{name} behind
\* middleware that writes nothing and calls next
EchoServed ==
    /\ req.pc = "done"
    /\ Called
    /\ req.pattern = <<Lit("hello"), Wild("name")>>
    /\ routes[req.pattern].handler = "echo"
    /\ \A i \in 1..Len(middleware) : middleware[i] \in {"first", "second", "recovery"}

\* C10: a request that matches a route with a {name} segment whose handler
\* writes PathValue(r, "name") is answered 200 with the segment as the body
C10_PathValueBody ==
    EchoServed =>
        /\ RespStatus(req.w) = StatusOK
        /\ RespBody(req.w) = req.path[2]

\* ---------------------------------------------------- claims: path matcher
\* the string between the first and the last character that is no separator
Core(s) ==
    LET ns == { i \in 1..Len(s) : s[i] # Sep }
    IN  IF ns = {} THEN <<>>
        ELSE SubSeq(s, CHOOSE i \in ns : \A j \in ns : i <= j,
                       CHOOSE i \in ns : \A j \in ns : j <= i)

\* the places where a segment of c ends or begins
Cuts(c) == {0, Len(c) + 1} \cup { i \in 1..Len(c) : c[i] = Sep }

\* the k-th smallest element of a set of numbers
Nth(S, k) == CHOOSE i \in S : Cardinality({ j \in S : j < i }) = k - 1

\* the number of segments of a string and its k-th segment, after trimming
NumSegs(s) == Cardinality(Cuts(Core(s))) - 1
SegAt(s, k) ==
    LET c == Core(s)
    IN  SubSeq(c, Nth(Cuts(c), k) + 1, Nth(Cuts(c), k + 1) - 1)

\* a segment of the form {identifier}, and its identifier
IsPlaceholder(seg) == Len(seg) >= 2 /\ seg[1] = "{" /\ seg[Len(seg)] = "}"
PlaceholderName(seg) == SubSeq(seg, 2, Len(seg) - 1)

\* the positions of the placeholders of a pattern
PlaceholderAt(pattern) ==
    { k \in 1..NumSegs(pattern) : IsPlaceholder(SegAt(pattern, k)) }

\* the matcher was called and reported a match
Extracted == req.pc = "extracted"
Matched == Extracted /\ ~req.params.nil

\* C11: the matcher reports a match exactly when pattern and path have the
\* same number of segments after trimming and every literal segment of the
\* pattern equals the segment of the path at its position
C11_MatchIffLiteralsEqual ==
    Extracted =>
        (Matched <=>
            /\ NumSegs(req.pattern) = NumSegs(req.path)
            /\ \A k \in 1..NumSegs(req.pattern) :
                  ~IsPlaceholder(SegAt(req.pattern, k)) =>
                      SegAt(req.pattern, k) = SegAt(req.path, k))

C13_ParamsBound ==
    Matched =>
        /\ DOMAIN req.params.vals =
              { PlaceholderName(SegAt(req.pattern, k)) : k \in PlaceholderAt(req.pattern) }
        /\ \A k \in PlaceholderAt(req.pattern) :
              (\A j \in PlaceholderAt(req.pattern) :
                    SegAt(req.pattern, j) = SegAt(req.pattern, k) => j <= k) =>
                  req.params.vals[PlaceholderName(SegAt(req.pattern, k))] =
                      SegAt(req.path, k)

C13_Witness ==
    /\ Matched
    /\ req.pattern = <<"/", "u", "/", "{", "i", "}">>
    /\ req.path = <<"/", "u", "/", "4">>
    /\ req.params.vals = (<<"i">> :> <<"4">>)

\* ------------------------------------------------- claims: parameter store
\* what PathValue reads for a key on request r of the store
ReadIn(q, r, key) == PathValue(Bound(q, r), key)

\* the calls of SetPathValue made so far
SetOneCalls == { c \in 1..Len(req.calls) : req.calls[c].op = "SetPathValue" }

\* C14: the request SetPathValue(r, key, value) returns reads value for key
\* and, for every other key, what r reads: a chain of SetPathValue calls with
\* distinct keys reads every value back and a key set again reads the later value
C14_SetThenRead ==
    \A c \in SetOneCalls :
        LET call == req.calls[c]
        IN  /\ ReadIn(req, call.ret, call.key) = call.value
            /\ \A k \in StoreKeys \ {call.key} :
                  ReadIn(req, call.ret, k) = ReadIn(req, call.r, k)

C14_Witness ==
    /\ Len(req.calls) = 2
    /\ req.reqs[1] = NoValue
    /\ req.calls[1] = [op |-> "SetPathValue", r |-> 1, key |-> "a", value |-> "1",
                       nil |-> FALSE, m |-> EmptyMap, ret |-> 2]
    /\ req.calls[2] = [op |-> "SetPathValue", r |-> 2, key |-> "b", value |-> "2",
                       nil |-> FALSE, m |-> EmptyMap, ret |-> 3]
    /\ ReadIn(req, 3, "a") = "1"
    /\ ReadIn(req, 3, "b") = "2"

\* C15: a call of SetPathValue changes what no existing request reads: the
\* map attached to r, and to every request that shares it, is left as it is
C15_CopyOnWrite ==
    [][(\E r \in StoreReqs, key \in StoreKeys, value \in StoreValues :
            CallSetPathValue(r, key, value)) =>
        \A r \in 1..Len(req.reqs), k \in StoreKeys :
            ReadIn(req', r, k) = ReadIn(req, r, k)]_vars

C15_Witness ==
    /\ Len(req.calls) = 2
    /\ Len(req.reqs) = 3
    /\ req.reqs[1] = MapValue(1)
    /\ req.reqs[2] = MapValue(1)
    /\ req.calls[2] = [op |-> "SetPathValue", r |-> 1, key |-> "a", value |-> "2",
                       nil |-> FALSE, m |-> EmptyMap, ret |-> 3]
    /\ ReadIn(req, 1, "a") = "1"
    /\ ReadIn(req, 2, "a") = "1"
    /\ ReadIn(req, 3, "a") = "2"

\* C16: SetPathValues(r, m) with a non-empty m returns a request that reads
\* exactly m, and with an empty or nil m it is a no-op: every key reads on the
\* request it returns what it read on r
C16_SetAll ==
    \A c \in 1..Len(req.calls) :
        LET call == req.calls[c]
        IN  call.op = "SetPathValues" =>
              IF ~call.nil /\ DOMAIN call.m # {}
              THEN \A k \in StoreKeys :
                      ReadIn(req, call.ret, k) =
                          IF k \in DOMAIN call.m THEN call.m[k] ELSE ""
              ELSE \A k \in StoreKeys : ReadIn(req, call.ret, k) = ReadIn(req, call.r, k)

\* C17: PathValue returns the empty string when nothing is attached to the
\* request, when a nil map is attached and when the key is not in the
\* attached map, and the attached value otherwise
C17_ReadNeverFails ==
    req.got # NoRead =>
        LET v == req.reqs[req.got.r]
        IN  req.got.value =
              IF v.kind = "map" /\ req.got.key \in DOMAIN req.heap[v.ref]
              THEN req.heap[v.ref][req.got.key]
              ELSE ""

C17_Witness ==
    /\ req.reqs[1] = NilValue
    /\ Len(req.reqs) = 2
    /\ req.reqs[2].kind = "map"
    /\ req.heap[req.reqs[2].ref] = ("a" :> "1")
    /\ req.got = [r |-> 2, key |-> "b", value |-> ""]

\* ------------------------------------------------------- claims: recovery
\* RecoveryMiddleware is registered and the other middleware write nothing
\* and call next
RecoveryInChain ==
    /\ \E i \in 1..Len(middleware) : middleware[i] = "recovery"
    /\ \A i \in 1..Len(middleware) : middleware[i] \in {"first", "second", "recovery"}

\* the terminal handler of the request panicked and the request is over
HandlerPanicked == Called /\ req.panic # "" /\ req.pc \in {"done", "panicked"}

\* C18: when the terminal handler panics, whatever it wrote before, and
\* RecoveryMiddleware is in the chain, the panic does not leave the closure,
\* the response status is 500 and a non-nil error came out of the chain
C18_PanicAnswered500 ==
    (HandlerPanicked /\ RecoveryInChain) =>
        /\ req.pc = "done"
        /\ req.err # NoErr
        /\ RespStatus(req.w) = StatusInternalServerError

\* the place of RecoveryMiddleware in the composed handler, 1 being the
\* outermost layer (0: it is not in the chain)
RecoveryDepth ==
    LET S == { i \in 1..Len(req.chain) : req.chain[i].name = "recovery" }
    IN  IF S = {} THEN 0 ELSE CHOOSE i \in S : \A j \in S : i <= j

\* C19: with the default middleware stack registered in the order it is
\* returned, RecoveryMiddleware is the outermost or the next to outermost
\* layer, and a panic of the terminal handler or of any other middleware of
\* the stack is caught by it: no panic leaves the closure
C19_RecoveryOutermost ==
    (middleware = DefaultMiddlewareStack /\ Called /\ req.pc \in {"done", "panicked"}) =>
        /\ req.pc # "panicked"
        /\ RecoveryDepth \in {1, 2}

\* ---------------------------------------------------- claims: short circuit
\* the place of the first registered middleware that returns without
\* calling next (0: every middleware calls next)
FirstReject ==
    LET S == { i \in 1..Len(middleware) : middleware[i] = "reject" }
    IN  IF S = {} THEN 0 ELSE CHOOSE i \in S : \A j \in S : i <= j

\* the code that runs when the i-th middleware returns without calling next:
\* pre 1 .. pre i, post i-1 .. post 1
ShortTrace(i) ==
    [ k \in 1..(2 * i - 1) |->
        IF k <= i THEN [ev |-> "pre", idx |-> k]
        ELSE [ev |-> "post", idx |-> 2 * i - k] ]

\* C20: when middleware Mi returns an error without calling next, no
\* middleware registered after Mi and no handler runs, the middleware
\* registered before Mi get Mi's error back from next and pass it on, and the
\* Router answers it like a handler error when no header was written: 500
\* with the error's text and a newline
C20_ShortCircuit ==
    (Called /\ FirstReject > 0) =>
        /\ IsPrefix(req.trace, ShortTrace(FirstReject))
        /\ req.panic = ""
        /\ req.pc \in {"out", "done"} => req.err = OpaqueErr("middleware error")
        /\ req.pc = "done" =>
              /\ req.trace = ShortTrace(FirstReject)
              /\ ~req.rw.wroteHeader =>
                    /\ RespStatus(req.w) = StatusInternalServerError
                    /\ RespBody(req.w) = "middleware error\n"

C20_Witness ==
    /\ req.pc = "done"
    /\ middleware = <<"first", "reject">>
    /\ req.trace = <<[ev |-> "pre", idx |-> 1], [ev |-> "pre", idx |-> 2],
                     [ev |-> "post", idx |-> 1]>>
    /\ req.err = OpaqueErr("middleware error")
    /\ RespStatus(req.w) = StatusInternalServerError
    /\ RespBody(req.w) = "middleware error\n"

\* ------------------------------------------------------ claims: request id
\* the terminal handler is about to be invoked
HandlerTurn == req.pc = "in" /\ ~Layer(req).mw

\* RequestIDMiddleware is registered
HasRequestID == \E i \in 1..Len(middleware) : middleware[i] = "requestid"

AfterCORS ==
    /\ Called
    /\ middleware # <<>>
    /\ middleware[1] \in CORSKinds
    /\ req.trace = <<[ev |-> "pre", idx |-> 1]>>

\* the list of allowed origins has "*" or the origin itself
OriginAllowed(allowedOrigins, origin) ==
    \E i \in 1..Len(allowedOrigins) : allowedOrigins[i] \in {"*", origin}

PreflightHeaders ==
    { "Access-Control-Allow-Methods", "Access-Control-Allow-Headers",
      "Access-Control-Max-Age" }

\* C21: CORSMiddleware answers every OPTIONS request itself: it sets the three
\* Access-Control headers of a preflight, writes status 200, returns nil and
\* does not call the wrapped handler; for every other method it calls the
\* wrapped handler, after setting Access-Control-Allow-Origin to the request's
\* Origin exactly when the allowed list has "*" or that Origin
C21_CORS ==
    AfterCORS =>
        IF req.method = "OPTIONS"
        THEN /\ req.pc \in {"out", "done"}
             /\ req.depth = 0
             /\ PreflightHeaders \subseteq req.w.hdrSet
             /\ req.w.hdr["Access-Control-Allow-Methods"] =
                    "GET, POST, PUT, DELETE, PATCH, OPTIONS"
             /\ req.w.hdr["Access-Control-Allow-Headers"] = "Content-Type, Authorization"
             /\ req.w.hdr["Access-Control-Max-Age"] = "3600"
             /\ req.w.codes = <<StatusOK>>
             /\ req.err = NoErr
        ELSE /\ req.pc = "in"
             /\ req.depth = 2
             /\ req.w.codes = <<>>
             /\ ("Access-Control-Allow-Origin" \in req.w.hdrSet) <=>
                    OriginAllowed(AllowedOrigins(middleware[1]), req.origin)
             /\ ("Access-Control-Allow-Origin" \in req.w.hdrSet) =>
                    req.w.hdr["Access-Control-Allow-Origin"] = req.origin

C21_Witness ==
    /\ AfterCORS
    /\ middleware = <<"cors-b-star">>
    /\ req.method = "GET"
    /\ req.origin = "http://a"
    /\ req.w.hdr["Access-Control-Allow-Origin"] = "http://a"
    /\ req.pc = "in"

Finished ==
    /\ req.pc \in {"done", "panicked"}
    /\ req.pattern # NoPattern
    /\ req.chain # <<>>

TimeoutChain ==
    /\ middleware # <<>>
    /\ \A i \in 1..Len(middleware) : middleware[i] = "timeout"

\* what the client and the Router see of a request that was served
Delivered(q) == [w |-> q.w, rw |-> q.rw, err |-> q.err, panic |-> q.panic, pc |-> q.pc]

\* the same request served by the route's handler behaving as s, with no
\* middleware registered
Bare(s) ==
    ViaHandle([IdleReq EXCEPT !.pc = "matched", !.method = req.method, !.path = req.path,
                              !.pattern = req.pattern,
                              !.muxVals = MuxBind(req.pattern, req.path)],
              routes[req.pattern].method, routes[req.pattern].handler, <<>>, s)

\* C22: TimeoutMiddleware only attaches a deadline: a handler that does not
\* look at the context is served exactly as without the middleware, also
\* when the deadline passed before it acted; a handler that returns the
\* context's error after the deadline gets 500 with that error's text
C22_TimeoutNeverAborts ==
    (Finished /\ TimeoutChain) =>
        IF routes[req.pattern].handler = "select"
        THEN IF req.err # NoErr
             THEN /\ req.ctx.deadline = "exceeded"
                  /\ req.err = DeadlineExceeded
                  /\ req.w.codes = <<StatusInternalServerError>>
                  /\ RespBody(req.w) = "context deadline exceeded\n"
             ELSE /\ RespStatus(req.w) = StatusOK
                  /\ RespBody(req.w) = "success"
        ELSE \E s \in Scripts : Delivered(req) = Delivered(Bare(s))

C22_Witness ==
    /\ Finished
    /\ TimeoutChain
    /\ routes[req.pattern].handler = "script"
    /\ req.ctx.deadline = "exceeded"
    /\ req.w.codes = <<201>>
    /\ RespBody(req.w) = "hi"
    /\ req.err = NoErr

\* ---------------------------------------------- claims: recovery, one answer
\* RecoveryMiddleware caught a panic while this request was served
Recovered == \E i \in 1..Len(req.trace) : req.trace[i].ev = "recover"

\* a panic arrives at RecoveryMiddleware and nothing was written yet
RecoverClean ==
    /\ req.pc = "out"
    /\ req.depth >= 1
    /\ Layer(req).name = "recovery"
    /\ req.unwinding
    /\ req.w.codes = <<>>
    /\ req.w.body = ""
    /\ ~req.rw.wroteHeader

\* C29: RecoveryMiddleware answers a panic on an untouched response with
\* status 500 and body "Internal Server Error\n", marks the header as
\* written and returns the error "panic: ..."; when that error reaches the
\* Router the response stays as it is: no second status, no second body
C29_RecoveredOnce ==
    [][/\ RecoverClean =>
             /\ req'.w.codes = <<StatusInternalServerError>>
             /\ req'.w.body = "Internal Server Error\n"
             /\ req'.rw = [status |-> StatusInternalServerError, wroteHeader |-> TRUE]
             /\ req'.err = OpaqueErr("panic: " \o req.panic)
             /\ ~req'.unwinding
       /\ (req.pc = "out" /\ req.depth = 0 /\ Recovered /\ req'.pc = "done") =>
             /\ req.err # NoErr
             /\ req.rw.wroteHeader
             /\ req'.w = req.w
             /\ req'.rw = req.rw
             /\ req.w.codes[1] = StatusInternalServerError =>
                    /\ req'.w.codes = <<StatusInternalServerError>>
                    /\ req'.w.body = "Internal Server Error\n"]_vars

C29_Witness ==
    /\ req.pc = "done"
    /\ Recovered
    /\ req.panic = "boom"
    /\ req.err = OpaqueErr("panic: boom")
    /\ req.w.codes = <<StatusInternalServerError>>
    /\ RespBody(req.w) = "Internal Server Error\n"

\* ------------------------------------------- claims: chain at request time
\* C27: the chain of a request is composed from the middleware list as it is
\* when the request is served: every middleware registered so far runs, in
\* registration order, also the ones added with Use after the route was
\* registered
C27_ChainAtRequestTime ==
    Called =>
        /\ Len(req.chain) = Len(middleware) + 1
        /\ \A i \in 1..Len(middleware) : req.chain[i] = MwLayer(middleware[i], i)
        /\ (req.pc = "done" /\ req.panic = "") =>
              req.trace = ExpectedTrace(Len(middleware))

C27_Witness ==
    /\ req.pc = "done"
    /\ Called
    /\ req.panic = ""
    /\ routes[req.pattern].seen = <<>>
    /\ middleware = <<"second", "first">>
    /\ req.trace = ExpectedTrace(2)
    /\ RespHeader(req.w, "X-Order") = "first"

\* ------------------------------------------------ claims: keys of the routes
\* C25: routes are keyed by (method, pattern): a pattern registered for one
\* method takes a registration for another method as well, so the only
\* registration that can be refused is one for a method the pattern is
\* registered for already
C25_KeyedByMethodAndPattern ==
    (req.pc = "crashed" /\ ~routes[req.pattern].any) =>
        routes[req.pattern].method = req.method

\* ------------------------------------------ claims: headers set after next
\* a request was served through two middleware that set X-Order after next
ServedAfterTwo ==
    /\ req.pc = "done"
    /\ Called
    /\ Len(middleware) = 2
    /\ \A i \in 1..2 : middleware[i] \in AfterKinds

\* C26 as stated: whatever the terminal handler does, the X-Order the client
\* receives is the one the first registered middleware set after next
C26_FirstRegisteredWins ==
    ServedAfterTwo => RespHeader(req.w, "X-Order") = AfterValue(middleware[1])

\* C26 as amended: when the composed handler wrote no header and no body,
\* the X-Order the client receives is the one the first registered
\* middleware set after next
C26_FirstRegisteredWinsUnwritten ==
    (ServedAfterTwo /\ ~req.rw.wroteHeader) =>
        /\ RespHeader(req.w, "X-Order") = AfterValue(middleware[1])
        /\ req.trace = ExpectedTrace(2)

C26_Witness ==
    /\ ServedAfterTwo
    /\ middleware = <<"afterfirst", "aftersecond">>
    /\ ~req.rw.wroteHeader
    /\ req.err # NoErr
    /\ req.w.codes = <<StatusInternalServerError>>
    /\ req.w.sent["X-Order"] = "first"

\* ------------------------------------------------ claims: concurrent requests
\* the composed handler of request i ran and control is back in the Router
ConcFinished(i) ==
    /\ req.slots[i].pc \in {"done", "panicked"}
    /\ req.slots[i].chain # <<>>

\* request i served alone by the same Router, its handler behaving as s
Alone(i, s) ==
    LET q == req.slots[i]
    IN  ViaHandle([IdleReq EXCEPT !.pc = "matched", !.method = q.method, !.path = q.path,
                                  !.pattern = q.pattern,
                                  !.muxVals = MuxBind(q.pattern, q.path)],
                  routes[q.pattern].method, routes[q.pattern].handler, middleware, s)

\* C23: however the steps of two requests interleave, a step of one request
\* leaves the tracker of the other as it is, and each request ends with the
\* status, body, wroteHeader flag, error and trace it has when it is served
\* alone: header writes, errors and recovered panics stay in their request
C23_RequestsIsolated ==
    /\ [](\A i \in Requests : ConcFinished(i) =>
             \E s \in ConcScripts :
                /\ Delivered(View(i)) = Delivered(Alone(i, s))
                /\ req.slots[i].trace = Alone(i, s).trace
                /\ req.slots[i].chain = applyMiddleware(middleware, "script"))
    /\ [][\A j \in Requests :
             req'.slots[j] = req.slots[j] =>
                req'.trackers[TrackerOf(j)] = req.trackers[TrackerOf(j)]]_vars

C23_Witness ==
    /\ middleware = <<"recovery">>
    /\ ConcFinished(1)
    /\ ConcFinished(2)
    /\ req.slots[1].w.codes = <<201>>
    /\ req.slots[1].err = OpaqueErr("handler error")
    /\ req.trackers[1] = [status |-> 201, wroteHeader |-> TRUE]
    /\ req.slots[2].panic = "boom"
    /\ req.slots[2].w.codes = <<StatusInternalServerError>>
    /\ req.trackers[2] = [status |-> StatusInternalServerError, wroteHeader |-> TRUE]

\* C28: serving requests leaves the middleware list and the routes as Use
\* and the registrations made them, whatever the outcome of the request
\* (matched, 404, 405, error, recovered panic); of the trackers a step
\* changes at most the one of the request it belongs to
C28_DispatchFrame ==
    [][/\ middleware' = middleware
       /\ routes' = routes
       /\ \A i \in Requests :
             req'.slots[i] # req.slots[i] =>
                \A k \in Requests \ {i} : req'.trackers[k] = req.trackers[k]]_vars

C28_Witness ==
    /\ middleware = <<"first", "writer">>
    /\ routes[<<Lit("test")>>].method = "GET"
    /\ req.slots[1].pc = "done"
    /\ RespStatus(req.slots[1].w) = StatusNotFound
    /\ req.slots[2].pc = "done"
    /\ RespStatus(req.slots[2].w) = StatusMethodNotAllowed
    /\ req.trackers = [i \in Requests |-> NewTracker]

====
